---- MODULE Spec2Model ----
(***************************************************************************)
(* A model of the MOON front end (src/src/App.tsx and the reaction tree    *)
(* graph component): the result ranker, the asynchronous handlers of the   *)
(* App component and the text instructions generated from a sourcing tree. *)
(* The Rust backend reached through invoke() is not part of the sources;   *)
(* its commands are modelled from the specification of their interface.    *)
(***************************************************************************)
EXTENDS Integers, Sequences, FiniteSets, TLC

VARIABLES
    \* ---- React state of App (App.tsx 68-78) ----
    inputText, moons, uniqueMaterials, errorMessage, tabs, activeTab,
    isAnalyzing, sortField, sortDirection,
    \* ---- environment of the component ----
    sites,      \* the backend's ordered site list
    tasks,      \* handler invocations suspended at an await
    clock,      \* Date.now(), counted in completed analyses
    \* ---- harness of the ranker ----
    sortPc, sortIn, sortOut,
    \* ---- harness of the text instructions and of the flow graph ----
    treePc, tree, instructions, flow

vars == <<inputText, moons, uniqueMaterials, errorMessage, tabs, activeTab,
          isAnalyzing, sortField, sortDirection, sites, tasks, clock,
          sortPc, sortIn, sortOut, treePc, tree, instructions, flow>>

uiVars == <<inputText, moons, uniqueMaterials, errorMessage, tabs, activeTab,
            isAnalyzing, sites, tasks, clock>>

sortVars == <<sortPc, sortIn, sortOut>>

treeVars == <<treePc, tree, instructions, flow>>

harnessVars == <<sortVars, treeVars>>

\* ---------------------------------------------------------------------
\* Bounds
\* ---------------------------------------------------------------------
MaxLen == 3         \* longest result list handed to the ranker
MaxSites == 1       \* most sites the backend holds
MaxTasks == 2       \* most handler invocations suspended at once
MaxAnalyses == 2    \* most analyses started
MaxNodes == 5       \* most nodes of a sourcing tree

\* ---------------------------------------------------------------------
\* Generic helpers
\* ---------------------------------------------------------------------
Range(s) == {s[i] : i \in 1..Len(s)}

Min(a, b) == IF a <= b THEN a ELSE b

null == "null"

\* ---------------------------------------------------------------------
\* Result ranker: getSortedResults (App.tsx 205-215)
\* ---------------------------------------------------------------------
SortFields == {"output_name", "output_quantity", "input_cost",
               "output_value", "profit", "margin"}

SortDirections == {"asc", "desc"}

\* ReactionProfit rows; output_name is a string of character codes.
\* P1 and P3 agree on every sort key, P4 beats P1 on margin but not on profit.
P1 == [formula_id |-> 1, output_name |-> <<1>>, output_quantity |-> 1,
       input_cost |-> 900, output_value |-> 1000, profit |-> 100, margin |-> 10]
P2 == [formula_id |-> 2, output_name |-> <<2>>, output_quantity |-> 200,
       input_cost |-> 210, output_value |-> 200, profit |-> -10, margin |-> -5]
P3 == [formula_id |-> 3, output_name |-> <<1>>, output_quantity |-> 1,
       input_cost |-> 900, output_value |-> 1000, profit |-> 100, margin |-> 10]
P4 == [formula_id |-> 4, output_name |-> <<1, 2>>, output_quantity |-> 200,
       input_cost |-> 60, output_value |-> 100, profit |-> 40, margin |-> 40]

Profits == {P1, P2, P3, P4}

\* String.prototype.localeCompare on strings of character codes:
\* negative, zero or positive, by the first differing code, a proper
\* prefix before the longer string.
RECURSIVE localeCompare(_, _)
localeCompare(a, b) ==
    IF a = <<>> /\ b = <<>> THEN 0
    ELSE IF a = <<>> THEN -1
    ELSE IF b = <<>> THEN 1
    ELSE IF Head(a) < Head(b) THEN -1
    ELSE IF Head(a) > Head(b) THEN 1
    ELSE localeCompare(Tail(a), Tail(b))

\* The comparator without the direction (App.tsx 207-212).
comparison(a, b) ==
    IF sortField = "output_name"
    THEN localeCompare(a.output_name, b.output_name)
    ELSE a[sortField] - b[sortField]

compare_ignoresDirection(a, b) == comparison(a, b)

\* The comparator handed to sort (App.tsx 206-214).
compare(a, b) ==
    IF sortDirection = "asc" THEN comparison(a, b) ELSE 0 - comparison(a, b)

\* Array.prototype.sort: a stable sort by the comparator. x is placed
\* behind every element of the sorted prefix that does not compare after it.
RECURSIVE insertSorted(_, _)
insertSorted(x, s) ==
    IF s = <<>> THEN <<x>>
    ELSE IF compare(x, Head(s)) < 0 THEN <<x>> \o s
    ELSE <<Head(s)>> \o insertSorted(x, Tail(s))

RECURSIVE sort(_, _)
sort(s, acc) ==
    IF s = <<>> THEN acc ELSE sort(Tail(s), insertSorted(Head(s), acc))

Reverse(s) == [i \in 1..Len(s) |-> s[Len(s) + 1 - i]]

\* A ranker whose descending order is the mirror image of an ascending
\* one: equal keys come out in reverse input order.
getSortedResults_reversing(results) ==
    IF sortDirection = "asc" THEN sort(results, <<>>)
    ELSE sort(Reverse(results), <<>>)

getSortedResults(results) == sort(results, <<>>)

\* handleSort (App.tsx 196-203)
handleSort(field) ==
    IF sortField = field
    THEN /\ sortDirection' = (IF sortDirection = "asc" THEN "desc" ELSE "asc")
         /\ UNCHANGED sortField
    ELSE /\ sortField' = field
         /\ sortDirection' = "desc"

\* ---------------------------------------------------------------------
\* Backend commands (interface: spec sections 4.1, 4.2 and 6)
\* ---------------------------------------------------------------------
MoonA == [name |-> "Moon A",
          materials |-> <<[name |-> "Cobaltite", quantity |-> 40],
                          [name |-> "Titanite", quantity |-> 25]>>]
\* A pasted text is a sequence of lines: blank lines, the survey block of
\* Moon A, and lines no ore is recognised in.
Texts == { <<>>, <<" ">>, <<"junk">>, <<" ", "scan A", "junk">> }

ParseLine(line) ==
    IF line = "scan A" THEN <<MoonA>> ELSE <<>>

\* parse_moon_data: the sites of the recognised blocks, in order; the
\* result <<>> stands for the MalformedSurvey failure (no line succeeds).
RECURSIVE parse_moon_data(_)
parse_moon_data(input) ==
    IF input = <<>> THEN <<>>
    ELSE ParseLine(Head(input)) \o parse_moon_data(Tail(input))

\* add_moon: appends the parsed sites.
add_moon(s, moonsToAdd) == s \o moonsToAdd

\* delete_moon: removes the site at a 0-based index.
delete_moon(s, index) ==
    [i \in 1..(Len(s) - 1) |-> IF i <= index THEN s[i] ELSE s[i + 1]]

\* get_moons
get_moons(s) == s

\* get_unique_materials: the material names that occur in some site.
get_unique_materials(s) ==
    UNION {{s[i].materials[j].name : j \in 1..Len(s[i].materials)} : i \in 1..Len(s)}

\* analyze_reactions: the rows depend on prices the model does not hold,
\* so a completed analysis returns any of these lists.
AnalysisResults == { <<P2, P1, P4>>, <<P4, P3, P1>> }

MalformedSurvey == "MalformedSurvey"
IndexOutOfRange == "IndexOutOfRange"
AnalysisFailed == "AnalysisFailed"

\* ---------------------------------------------------------------------
\* The App component (App.tsx 67-169)
\* ---------------------------------------------------------------------
home == <<"home">>

HomeTab == [id |-> home, name |-> <<"Home">>, results |-> <<>>]

TabIds(ts) == {ts[i].id : i \in 1..Len(ts)}

\* every id a tab can have
AllTabIds == {home} \cup {<<"analysis", n>> : n \in 1..MaxAnalyses}

\* A handler invocation suspended at an await: which invoke it waits for
\* (pc) and the values its closure holds.
Idle == [kind |-> "idle", pc |-> "idle", input |-> <<>>, parsed |-> <<>>,
         index |-> 0, loaded |-> <<>>, tabs |-> <<>>]

Slots == 1..MaxTasks

IdleSlots == {k \in Slots : tasks[k].kind = "idle"}

FreeSlot == CHOOSE k \in IdleSlots : \A j \in IdleSlots : k <= j

Waiting(pc) == {k \in Slots : tasks[k].pc = pc}

\* String.prototype.trim on a text of lines: blank lines at both ends go.
RECURSIVE trimStart(_)
trimStart(text) ==
    IF text # <<>> /\ Head(text) = " " THEN trimStart(Tail(text)) ELSE text

trim(text) == Reverse(trimStart(Reverse(trimStart(text))))

\* refreshData up to its first await (App.tsx 81-83)
refreshData(k, t) == tasks' = [tasks EXCEPT ![k] = [t EXCEPT !.pc = "get_moons"]]

\* refreshData: get_moons answers, get_unique_materials is invoked (83-84)
GetMoonsResolved(k) ==
    /\ tasks[k].pc = "get_moons"
    /\ tasks' = [tasks EXCEPT ![k] = [@ EXCEPT !.pc = "get_unique_materials",
                                               !.loaded = get_moons(sites)]]
    /\ UNCHANGED <<inputText, moons, uniqueMaterials, errorMessage, tabs,
                   activeTab, isAnalyzing, sortField, sortDirection, sites,
                   clock, harnessVars>>

\* refreshData: get_unique_materials answers, both lists are set (84-86)
GetUniqueMaterialsResolved(k) ==
    /\ tasks[k].pc = "get_unique_materials"
    /\ moons' = tasks[k].loaded
    /\ uniqueMaterials' = get_unique_materials(sites)
    /\ tasks' = [tasks EXCEPT ![k] = Idle]
    /\ UNCHANGED <<inputText, errorMessage, tabs, activeTab, isAnalyzing,
                   sortField, sortDirection, sites, clock, harnessVars>>

\* The textarea's onChange (App.tsx 327)
SetInputText(text) ==
    /\ activeTab = home
    /\ inputText # text
    /\ inputText' = text
    /\ UNCHANGED <<moons, uniqueMaterials, errorMessage, tabs, activeTab,
                   isAnalyzing, sortField, sortDirection, sites, tasks,
                   clock, harnessVars>>

\* Sites the backend holds or is about to be given.
RECURSIVE PendingSites(_)
PendingSites(k) ==
    IF k = 0 THEN 0
    ELSE PendingSites(k - 1)
         + (IF tasks[k].pc \in {"parse_moon_data", "add_moon"}
            THEN Len(parse_moon_data(tasks[k].input)) ELSE 0)

SitesCommitted ==
    Len(sites) + PendingSites(MaxTasks) + Len(parse_moon_data(inputText))

\* handleAddMoon up to its first await (App.tsx 96-108)
handleAddMoon ==
    /\ activeTab = home
    /\ IF trim(inputText) = <<>>
       THEN /\ errorMessage' = "Please enter moon scan data"
            /\ UNCHANGED tasks
       ELSE /\ IdleSlots # {}
            /\ SitesCommitted <= MaxSites
            /\ errorMessage' = null
            /\ tasks' = [tasks EXCEPT ![FreeSlot] =
                            [Idle EXCEPT !.kind = "add",
                                         !.pc = "parse_moon_data",
                                         !.input = inputText]]
    /\ UNCHANGED <<inputText, moons, uniqueMaterials, tabs, activeTab,
                   isAnalyzing, sortField, sortDirection, sites, clock,
                   harnessVars>>

\* handleAddMoon: parse_moon_data answers, add_moon is invoked (106-111)
ParseResolved(k) ==
    /\ tasks[k].pc = "parse_moon_data"
    /\ parse_moon_data(tasks[k].input) # <<>>
    /\ tasks' = [tasks EXCEPT ![k] =
                    [@ EXCEPT !.pc = "add_moon",
                              !.parsed = parse_moon_data(tasks[k].input)]]
    /\ UNCHANGED <<inputText, moons, uniqueMaterials, errorMessage, tabs,
                   activeTab, isAnalyzing, sortField, sortDirection, sites,
                   clock, harnessVars>>

\* A catch block that also throws the pasted text away.
ParseRejected_clearsInput(k) ==
    /\ tasks[k].pc = "parse_moon_data"
    /\ parse_moon_data(tasks[k].input) = <<>>
    /\ errorMessage' = MalformedSurvey
    /\ inputText' = <<>>
    /\ tasks' = [tasks EXCEPT ![k] = Idle]
    /\ UNCHANGED <<moons, uniqueMaterials, tabs, activeTab,
                   isAnalyzing, sortField, sortDirection, sites, clock,
                   harnessVars>>

\* handleAddMoon: parse_moon_data fails, the catch block runs (116-118)
ParseRejected(k) ==
    /\ tasks[k].pc = "parse_moon_data"
    /\ parse_moon_data(tasks[k].input) = <<>>
    /\ errorMessage' = MalformedSurvey
    /\ tasks' = [tasks EXCEPT ![k] = Idle]
    /\ UNCHANGED <<inputText, moons, uniqueMaterials, tabs, activeTab,
                   isAnalyzing, sortField, sortDirection, sites, clock,
                   harnessVars>>

\* handleAddMoon: add_moon answers, the input is cleared and the data
\* refreshed (111-115)
AddMoonResolved(k) ==
    /\ tasks[k].pc = "add_moon"
    /\ sites' = add_moon(sites, tasks[k].parsed)
    /\ inputText' = <<>>
    /\ refreshData(k, tasks[k])
    /\ UNCHANGED <<moons, uniqueMaterials, errorMessage, tabs, activeTab,
                   isAnalyzing, sortField, sortDirection, clock, harnessVars>>

\* handleDeleteMoon up to its await (App.tsx 121-123), from the delete
\* button of a displayed moon (357-368)
handleDeleteMoon(index) ==
    /\ activeTab = home
    /\ index \in 0..(Len(moons) - 1)
    /\ IdleSlots # {}
    /\ tasks' = [tasks EXCEPT ![FreeSlot] =
                    [Idle EXCEPT !.kind = "delete", !.pc = "delete_moon",
                                 !.index = index]]
    /\ UNCHANGED <<inputText, moons, uniqueMaterials, errorMessage, tabs,
                   activeTab, isAnalyzing, sortField, sortDirection, sites,
                   clock, harnessVars>>

\* handleDeleteMoon: delete_moon answers, the data is refreshed (123-124)
DeleteMoonResolved(k) ==
    /\ tasks[k].pc = "delete_moon"
    /\ tasks[k].index < Len(sites)
    /\ sites' = delete_moon(sites, tasks[k].index)
    /\ refreshData(k, tasks[k])
    /\ UNCHANGED <<inputText, moons, uniqueMaterials, errorMessage, tabs,
                   activeTab, isAnalyzing, sortField, sortDirection, clock,
                   harnessVars>>

\* handleDeleteMoon: delete_moon fails with IndexOutOfRange (125-127)
DeleteMoonRejected(k) ==
    /\ tasks[k].pc = "delete_moon"
    /\ tasks[k].index >= Len(sites)
    /\ errorMessage' = IndexOutOfRange
    /\ tasks' = [tasks EXCEPT ![k] = Idle]
    /\ UNCHANGED <<inputText, moons, uniqueMaterials, tabs, activeTab,
                   isAnalyzing, sortField, sortDirection, sites, clock,
                   harnessVars>>

\* A GO button that is never disabled.
GoButtonDisabled_never == FALSE

\* disabled={isAnalyzing} of the GO button (App.tsx 331-337)
GoButtonDisabled == isAnalyzing

AnalysesStarted == clock + Cardinality(Waiting("analyze_reactions"))

\* handleGo up to its await (App.tsx 130-140)
handleGo ==
    /\ activeTab = home
    /\ ~GoButtonDisabled
    /\ IF Len(moons) = 0
       THEN /\ errorMessage' = "Add some moons first before analyzing"
            /\ UNCHANGED <<isAnalyzing, tasks>>
       ELSE /\ IdleSlots # {}
            /\ AnalysesStarted < MaxAnalyses
            /\ isAnalyzing' = TRUE
            /\ errorMessage' = null
            /\ tasks' = [tasks EXCEPT ![FreeSlot] =
                            [Idle EXCEPT !.kind = "go",
                                         !.pc = "analyze_reactions",
                                         !.tabs = tabs]]
    /\ UNCHANGED <<inputText, moons, uniqueMaterials, tabs, activeTab,
                   sortField, sortDirection, sites, clock, harnessVars>>

\* The tab handleGo builds from the tab list of the render it was
\* started in (App.tsx 143-148); Date.now() is clock + 1.
newTab(t, results) ==
    [id |-> <<"analysis", clock + 1>>,
     name |-> <<"Analysis",
                Cardinality({i \in 1..Len(t.tabs) :
                                t.tabs[i].id[1] = "analysis"}) + 1>>,
     results |-> results]

\* handleGo: analyze_reactions answers (App.tsx 140-151, 155)
AnalyzeResolved(k, results) ==
    /\ tasks[k].pc = "analyze_reactions"
    /\ tabs' = tasks[k].tabs \o <<newTab(tasks[k], results)>>
    /\ activeTab' = newTab(tasks[k], results).id
    /\ isAnalyzing' = FALSE
    /\ clock' = clock + 1
    /\ tasks' = [tasks EXCEPT ![k] = Idle]
    /\ UNCHANGED <<inputText, moons, uniqueMaterials, errorMessage,
                   sortField, sortDirection, sites, harnessVars>>

\* handleGo: analyze_reactions fails (App.tsx 152-155)
AnalyzeRejected(k) ==
    /\ tasks[k].pc = "analyze_reactions"
    /\ errorMessage' = AnalysisFailed
    /\ isAnalyzing' = FALSE
    /\ tasks' = [tasks EXCEPT ![k] = Idle]
    /\ UNCHANGED <<inputText, moons, uniqueMaterials, tabs, activeTab,
                   sortField, sortDirection, sites, clock, harnessVars>>

\* A tab's onClick (App.tsx 297)
setActiveTab(id) ==
    /\ id \in TabIds(tabs)
    /\ activeTab # id
    /\ activeTab' = id
    /\ UNCHANGED <<inputText, moons, uniqueMaterials, errorMessage, tabs,
                   isAnalyzing, sortField, sortDirection, sites, tasks,
                   clock, harnessVars>>

\* A handleCloseTab without the guard for the Home tab.
handleCloseTab_unguarded(tabId) ==
    /\ tabId \in TabIds(tabs)
    /\ tabs' = SelectSeq(tabs, LAMBDA t : t.id # tabId)
    /\ activeTab' = (IF activeTab = tabId THEN home ELSE activeTab)
    /\ UNCHANGED <<inputText, moons, uniqueMaterials, errorMessage,
                   isAnalyzing, sortField, sortDirection, sites, tasks,
                   clock, harnessVars>>

\* A handleCloseTab that leaves activeTab alone.
handleCloseTab_keepsActive(tabId) ==
    /\ tabId \in TabIds(tabs)
    /\ IF tabId = home
       THEN UNCHANGED tabs
       ELSE tabs' = SelectSeq(tabs, LAMBDA t : t.id # tabId)
    /\ UNCHANGED <<inputText, moons, uniqueMaterials, errorMessage, activeTab,
                   isAnalyzing, sortField, sortDirection, sites, tasks,
                   clock, harnessVars>>

\* handleCloseTab (App.tsx 159-169), called for a tab of the tab bar
handleCloseTab(tabId) ==
    /\ tabId \in TabIds(tabs)
    /\ IF tabId = home
       THEN UNCHANGED <<tabs, activeTab>>
       ELSE /\ tabs' = SelectSeq(tabs, LAMBDA t : t.id # tabId)
            /\ activeTab' = (IF activeTab = tabId THEN home ELSE activeTab)
    /\ UNCHANGED <<inputText, moons, uniqueMaterials, errorMessage,
                   isAnalyzing, sortField, sortDirection, sites, tasks,
                   clock, harnessVars>>

\* activeTabData (App.tsx 182)
activeTabData ==
    IF activeTab \in TabIds(tabs)
    THEN (CHOOSE i \in 1..Len(tabs) :
            /\ tabs[i].id = activeTab
            /\ \A j \in 1..(i - 1) : tabs[j].id # activeTab)
    ELSE 0

\* The rows of the results list as rendered (App.tsx 419, 468)
DisplayedResults ==
    IF activeTab # home /\ activeTabData # 0
    THEN getSortedResults(tabs[activeTabData].results)
    ELSE <<>>

\* A click on a column header of the results table (App.tsx 446-463)
SortClicked(field) ==
    /\ activeTab # home
    /\ activeTabData # 0
    /\ handleSort(field)
    /\ UNCHANGED <<uiVars, harnessVars>>

\* The state after the first render: the mount effect has called
\* refreshData (App.tsx 68-78, 92-94).
InitApp ==
    /\ inputText = <<>>
    /\ moons = <<>>
    /\ uniqueMaterials = {}
    /\ errorMessage = null
    /\ tabs = <<HomeTab>>
    /\ activeTab = home
    /\ isAnalyzing = FALSE
    /\ sortField = "margin"
    /\ sortDirection = "desc"
    /\ sites = <<>>
    /\ tasks = [k \in Slots |->
                  IF k = 1 THEN [Idle EXCEPT !.kind = "mount", !.pc = "get_moons"]
                  ELSE Idle]
    /\ clock = 0

Init ==
    /\ InitApp
    /\ sortPc = "off"
    /\ sortIn = <<>>
    /\ sortOut = <<>>
    /\ treePc = "off"
    /\ tree = <<>>
    /\ instructions = <<>>
    /\ flow = <<>>

Next ==
    \/ \E text \in Texts : SetInputText(text)
    \/ handleAddMoon
    \/ \E k \in Slots : ParseResolved(k)
    \/ \E k \in Slots : ParseRejected(k)
    \/ \E k \in Slots : AddMoonResolved(k)
    \/ \E index \in 0..(MaxSites - 1) : handleDeleteMoon(index)
    \/ \E k \in Slots : DeleteMoonResolved(k)
    \/ \E k \in Slots : DeleteMoonRejected(k)
    \/ \E k \in Slots : GetMoonsResolved(k)
    \/ \E k \in Slots : GetUniqueMaterialsResolved(k)
    \/ handleGo
    \/ \E k \in Slots, results \in AnalysisResults : AnalyzeResolved(k, results)
    \/ \E k \in Slots : AnalyzeRejected(k)
    \/ \E id \in AllTabIds : setActiveTab(id)
    \/ \E id \in AllTabIds : handleCloseTab(id)
    \/ \E field \in SortFields : SortClicked(field)

Spec == Init /\ [][Next]_vars

\* ---------------------------------------------------------------------
\* The site handlers on their own: pasting, Add Moon, the delete buttons
\* and the refreshes they start, from the state after construction.
\* ---------------------------------------------------------------------
NextSites ==
    \/ \E text \in Texts : SetInputText(text)
    \/ handleAddMoon
    \/ \E k \in Slots : ParseResolved(k)
    \/ \E k \in Slots : ParseRejected(k)
    \/ \E k \in Slots : AddMoonResolved(k)
    \/ \E index \in 0..(MaxSites - 1) : handleDeleteMoon(index)
    \/ \E k \in Slots : DeleteMoonResolved(k)
    \/ \E k \in Slots : DeleteMoonRejected(k)
    \/ \E k \in Slots : GetMoonsResolved(k)
    \/ \E k \in Slots : GetUniqueMaterialsResolved(k)

SpecSites == Init /\ [][NextSites]_vars

\* ---------------------------------------------------------------------
\* The tab bar, GO and the delete buttons, from the state the component
\* is in once the mount refresh has answered and one survey of Moon A has
\* been added (SpecSites reaches it). Pasting and Add Moon, left out
\* here, change neither tabs, activeTab, isAnalyzing nor the sort order.
\* ---------------------------------------------------------------------
InitTabs ==
    /\ inputText = <<>>
    /\ moons = <<MoonA>>
    /\ uniqueMaterials = get_unique_materials(<<MoonA>>)
    /\ errorMessage = null
    /\ tabs = <<HomeTab>>
    /\ activeTab = home
    /\ isAnalyzing = FALSE
    /\ sortField = "margin"
    /\ sortDirection = "desc"
    /\ sites = <<MoonA>>
    /\ tasks = [k \in Slots |-> Idle]
    /\ clock = 0
    /\ sortPc = "off"
    /\ sortIn = <<>>
    /\ sortOut = <<>>
    /\ treePc = "off"
    /\ tree = <<>>
    /\ instructions = <<>>
    /\ flow = <<>>

NextTabs ==
    \/ handleGo
    \/ \E k \in Slots, results \in AnalysisResults : AnalyzeResolved(k, results)
    \/ \E k \in Slots : AnalyzeRejected(k)
    \/ \E id \in AllTabIds : setActiveTab(id)
    \/ \E id \in AllTabIds : handleCloseTab(id)
    \/ \E field \in SortFields : SortClicked(field)
    \/ \E index \in 0..(MaxSites - 1) : handleDeleteMoon(index)
    \/ \E k \in Slots : DeleteMoonResolved(k)
    \/ \E k \in Slots : DeleteMoonRejected(k)
    \/ \E k \in Slots : GetMoonsResolved(k)
    \/ \E k \in Slots : GetUniqueMaterialsResolved(k)

SpecTabs == InitTabs /\ [][NextTabs]_vars

\* ---------------------------------------------------------------------
\* The ranker on its own: any list of distinct rows, under any sort order
\* handleSort can leave behind, is ranked once.
\* ---------------------------------------------------------------------
ResultLists ==
    {s \in UNION {[1..n -> Profits] : n \in 0..MaxLen} :
        \A i, j \in 1..Len(s) : i # j => s[i].formula_id # s[j].formula_id}

InitSort ==
    /\ inputText = <<>>
    /\ moons = <<>>
    /\ uniqueMaterials = {}
    /\ errorMessage = null
    /\ tabs = <<HomeTab>>
    /\ activeTab = home
    /\ isAnalyzing = FALSE
    /\ sortField \in SortFields
    /\ sortDirection \in SortDirections
    /\ sites = <<>>
    /\ tasks = [k \in Slots |-> Idle]
    /\ clock = 0
    /\ sortPc = "input"
    /\ sortIn \in ResultLists
    /\ sortOut = <<>>
    /\ treePc = "off"
    /\ tree = <<>>
    /\ instructions = <<>>
    /\ flow = <<>>

Rank ==
    /\ sortPc = "input"
    /\ sortOut' = getSortedResults(sortIn)
    /\ sortPc' = "done"
    /\ UNCHANGED <<uiVars, sortField, sortDirection, sortIn, treeVars>>

NextSort == Rank

SpecSort == InitSort /\ [][NextSort]_vars

\* ---------------------------------------------------------------------
\* Text instructions: formatIsk (App.tsx 171-180) and
\* generateTextInstructions (App.tsx 229-285)
\*
\* A sourcing tree is a function from the paths of its nodes to their
\* fields: the root is <<>>, the i-th child of node p is Append(p, i).
\* ---------------------------------------------------------------------
NodeKinds ==
    { [name |-> "Cobaltite", quantity |-> 100, source |-> "moon",
       total_price |-> 1500],
      [name |-> "Titanium", quantity |-> 2500, source |-> "buy",
       total_price |-> 2000000],
      [name |-> "Ceramic Powder", quantity |-> 200, source |-> "react",
       total_price |-> 950],
      [name |-> "Fermionic Condensates", quantity |-> 1000200,
       source |-> "output", total_price |-> 1200000000] }

Abs(x) == IF x < 0 THEN 0 - x ELSE x

\* (value / unit).toFixed(2) of a whole value, in hundredths
toFixed2(value, unit) ==
    LET h == (Abs(value) * 100 + unit \div 2) \div unit
    IN  IF value < 0 THEN 0 - h ELSE h

\* formatIsk: the amount in hundredths of the unit it is shown in
formatIsk(value) ==
    IF Abs(value) >= 1000000000
    THEN [hundredths |-> toFixed2(value \div 10000, 100000), unit |-> "B ISK"]
    ELSE IF Abs(value) >= 1000000
    THEN [hundredths |-> toFixed2(value, 1000000), unit |-> "M ISK"]
    ELSE IF Abs(value) >= 1000
    THEN [hundredths |-> toFixed2(value, 1000), unit |-> "K ISK"]
    ELSE [hundredths |-> value * 100, unit |-> " ISK"]

\* Number.prototype.toLocaleString of a whole quantity: its digit groups
RECURSIVE toLocaleString(_)
toLocaleString(n) ==
    IF n < 1000 THEN <<n>> ELSE toLocaleString(n \div 1000) \o <<n % 1000>>

\* node.children
children(t, p) ==
    LET n == Cardinality({q \in DOMAIN t : /\ Len(q) = Len(p) + 1
                                            /\ SubSeq(q, 1, Len(p)) = p})
    IN  [i \in 1..n |-> Append(p, i)]

\* `${c.name} x${c.quantity.toLocaleString()}` (App.tsx 245)
inputLabel(t, c) == <<t[c].name, " x", toLocaleString(t[c].quantity)>>

\* collectFromTree (App.tsx 236-251): acc holds the three arrays
RECURSIVE collectFromTree(_, _, _), collectChildren(_, _, _, _)
collectFromTree(t, p, acc) ==
    LET node == t[p]
        kids == children(t, p)
        material == [name |-> node.name, qty |-> node.quantity,
                     price |-> formatIsk(node.total_price)]
        acc1 ==
          IF node.source = "moon"
          THEN [acc EXCEPT !.moonMaterials = Append(@, material)]
          ELSE IF node.source = "buy"
          THEN [acc EXCEPT !.buyMaterials = Append(@, material)]
          ELSE IF node.source \in {"react", "output"} /\ Len(kids) > 0
          THEN [acc EXCEPT !.reactions =
                  Append(@, [output |-> node.name,
                             inputs |-> [i \in 1..Len(kids) |->
                                            inputLabel(t, kids[i])],
                             qty |-> node.quantity])]
          ELSE acc
    IN  collectChildren(t, kids, 1, acc1)
collectChildren(t, kids, i, acc) ==
    IF i > Len(kids) THEN acc
    ELSE collectChildren(t, kids, i + 1, collectFromTree(t, kids[i], acc))

\* A line of the instructions: its kind and the values printed in it.
Line(kind) == [kind |-> kind, n |-> 0, name |-> "", qty |-> <<>>,
               price |-> <<>>, inputs |-> <<>>]

\* The reactions listed as collected, final product first.
reactSteps_unreversed(reactions) == reactions

\* [...reactions].reverse() (App.tsx 274-275)
reactSteps(reactions) == Reverse(reactions)

RECURSIVE Flatten(_)
Flatten(ss) == IF ss = <<>> THEN <<>> ELSE Head(ss) \o Flatten(Tail(ss))

generateTextInstructions(t) ==
    LET acc == collectFromTree(t, <<>>, [moonMaterials |-> <<>>,
                                         buyMaterials |-> <<>>,
                                         reactions |-> <<>>])
        moonLines ==
          IF Len(acc.moonMaterials) > 0
          THEN <<Line("EXTRACT FROM MOONS:")>>
               \o [i \in 1..Len(acc.moonMaterials) |->
                     [Line("extract") EXCEPT
                        !.name = acc.moonMaterials[i].name,
                        !.qty = toLocaleString(acc.moonMaterials[i].qty),
                        !.price = acc.moonMaterials[i].price]]
               \o <<Line("")>>
          ELSE <<>>
        buyLines ==
          IF Len(acc.buyMaterials) > 0
          THEN <<Line("PURCHASE:")>>
               \o [i \in 1..Len(acc.buyMaterials) |->
                     [Line("purchase") EXCEPT
                        !.name = acc.buyMaterials[i].name,
                        !.qty = toLocaleString(acc.buyMaterials[i].qty),
                        !.price = acc.buyMaterials[i].price]]
               \o <<Line("")>>
          ELSE <<>>
        steps == reactSteps(acc.reactions)
        reactLines ==
          IF Len(acc.reactions) > 0
          THEN <<Line("REACT (in order):")>>
               \o Flatten([i \in 1..Len(steps) |->
                     << [Line("step") EXCEPT !.n = i,
                                             !.inputs = steps[i].inputs],
                        [Line("product") EXCEPT
                           !.name = steps[i].output,
                           !.qty = toLocaleString(steps[i].qty)] >>])
               \o <<Line("")>>
          ELSE <<>>
        sell == [Line("SELL") EXCEPT
                   !.name = t[<<>>].name,
                   !.qty = toLocaleString(t[<<>>].quantity),
                   !.price = formatIsk(t[<<>>].total_price)]
    IN  moonLines \o buyLines \o reactLines \o <<sell>>

\* ---------------------------------------------------------------------
\* Flow graph: treeToFlow (ReactionTreeGraph.tsx 137-175)
\* ---------------------------------------------------------------------
\* `node-${n}`
nodeId(n) == <<"node", n>>

\* An edge drawn from the parent down to the child.
flowEdge_parentToChild(parentId, id, node) ==
    [id |-> <<"edge", parentId, id>>, source |-> parentId, target |-> id,
     animated |-> (node.source = "react")]

\* The edge pushed for a node with a parent (ReactionTreeGraph.tsx 161-167)
flowEdge(parentId, id, node) ==
    [id |-> <<"edge", parentId, id>>, source |-> id, target |-> parentId,
     animated |-> (node.source = "react")]

\* The flow node pushed for a tree node (ReactionTreeGraph.tsx 148-158)
flowNode(id, node) ==
    [id |-> id, type |-> "reaction",
     data |-> [label |-> node.name, source |-> node.source,
               quantity |-> node.quantity,
               price |-> formatIsk(node.total_price)]]

\* treeToFlow: acc holds the nodes, the edges and the shared idCounter;
\* parentId is null for the root.
RECURSIVE treeToFlow(_, _, _, _), flowChildren(_, _, _, _, _)
treeToFlow(t, p, parentId, acc) ==
    LET id == nodeId(acc.idCounter)
        acc1 == [acc EXCEPT !.idCounter = @ + 1,
                            !.nodes = Append(@, flowNode(id, t[p]))]
        acc2 == IF parentId # null
                THEN [acc1 EXCEPT !.edges = Append(@, flowEdge(parentId, id, t[p]))]
                ELSE acc1
    IN  flowChildren(t, children(t, p), 1, id, acc2)
flowChildren(t, kids, i, parentId, acc) ==
    IF i > Len(kids) THEN acc
    ELSE flowChildren(t, kids, i + 1, parentId,
                      treeToFlow(t, kids[i], parentId, acc))

\* ---------------------------------------------------------------------
\* The tree views on their own: a sourcing tree is put together node by
\* node, then its instructions are generated or it is converted to a flow
\* graph.
\* ---------------------------------------------------------------------
RECURSIVE Sum(_)
Sum(s) == IF s = <<>> THEN 0 ELSE Head(s) + Sum(Tail(s))

\* the paths of the nodes that can still gain a child: a node at path p
\* has at least Sum(p) nodes before it
Paths ==
    {p \in UNION {[1..n -> 1..(MaxNodes - 2)] : n \in 0..(MaxNodes - 2)} :
        Sum(p) <= MaxNodes - 2}

InitTree ==
    /\ inputText = <<>>
    /\ moons = <<>>
    /\ uniqueMaterials = {}
    /\ errorMessage = null
    /\ tabs = <<HomeTab>>
    /\ activeTab = home
    /\ isAnalyzing = FALSE
    /\ sortField = "margin"
    /\ sortDirection = "desc"
    /\ sites = <<>>
    /\ tasks = [k \in Slots |-> Idle]
    /\ clock = 0
    /\ sortPc = "off"
    /\ sortIn = <<>>
    /\ sortOut = <<>>
    /\ treePc = "input"
    /\ \E node \in NodeKinds : tree = (<<>> :> node)
    /\ instructions = <<>>
    /\ flow = <<>>

\* the tree gains a last child of node p
Grow(p, node) ==
    /\ treePc = "input"
    /\ p \in DOMAIN tree
    /\ Cardinality(DOMAIN tree) < MaxNodes
    /\ tree' = (Append(p, Len(children(tree, p)) + 1) :> node) @@ tree
    /\ UNCHANGED <<uiVars, sortField, sortDirection, sortVars, treePc,
                   instructions, flow>>

Generate ==
    /\ treePc = "input"
    /\ instructions' = generateTextInstructions(tree)
    /\ treePc' = "done"
    /\ UNCHANGED <<uiVars, sortField, sortDirection, sortVars, tree, flow>>

\* ReactionTreeGraph converts the tree (ReactionTreeGraph.tsx 178-180)
Convert ==
    /\ treePc = "input"
    /\ flow' = treeToFlow(tree, <<>>, null, [nodes |-> <<>>, edges |-> <<>>,
                                             idCounter |-> 0])
    /\ treePc' = "flow"
    /\ UNCHANGED <<uiVars, sortField, sortDirection, sortVars, tree,
                   instructions>>

NextTree ==
    \/ \E p \in Paths, node \in NodeKinds : Grow(p, node)
    \/ Generate
    \/ Convert

SpecTree == InitTree /\ [][NextTree]_vars

\* ---------------------------------------------------------------------
\* Properties of the ranker
\* ---------------------------------------------------------------------
\* a is lexicographically at most b
LexLeq(a, b) ==
    \E n \in 0..Min(Len(a), Len(b)) :
        /\ \A i \in 1..n : a[i] = b[i]
        /\ \/ n = Len(a)
           \/ n < Len(a) /\ n < Len(b) /\ a[n + 1] < b[n + 1]

KeyLeq(a, b) ==
    IF sortField = "output_name" THEN LexLeq(a.output_name, b.output_name)
    ELSE a[sortField] <= b[sortField]

KeyEq(a, b) == a[sortField] = b[sortField]

Position(s, x) == CHOOSE i \in 1..Len(s) : s[i] = x

Margins(s) == [i \in 1..Len(s) |-> s[i].margin]

\* C1: getSortedResults returns a permutation of its input whose adjacent
\* rows are in non-decreasing key order for 'asc' and non-increasing key
\* order for 'desc', for every sort field; margins 10, -5, 40 ranked by
\* margin descending come out as 40, 10, -5.
RankerSortsByKey ==
    sortPc = "done" =>
        /\ Len(sortOut) = Len(sortIn)
        /\ Range(sortOut) = Range(sortIn)
        /\ \A i \in 1..(Len(sortOut) - 1) :
              IF sortDirection = "asc"
              THEN KeyLeq(sortOut[i], sortOut[i + 1])
              ELSE KeyLeq(sortOut[i + 1], sortOut[i])
        /\ (/\ Margins(sortIn) = <<10, -5, 40>>
            /\ sortField = "margin"
            /\ sortDirection = "desc") => Margins(sortOut) = <<40, 10, -5>>

RankedMarginsDescending ==
    /\ sortPc = "done"
    /\ sortField = "margin"
    /\ sortDirection = "desc"
    /\ Margins(sortIn) = <<10, -5, 40>>
    /\ Margins(sortOut) = <<40, 10, -5>>

\* C2: the ranking is stable in both directions: two rows with equal sort
\* keys come out in the relative order they had in the input list.
RankerIsStable ==
    sortPc = "done" =>
        \A i, j \in 1..Len(sortIn) :
            (i < j /\ KeyEq(sortIn[i], sortIn[j])) =>
                Position(sortOut, sortIn[i]) < Position(sortOut, sortIn[j])

RankedTieDescending ==
    /\ sortPc = "done"
    /\ sortDirection = "desc"
    /\ Len(sortOut) = 3
    /\ \E i, j \in 1..3 : i < j /\ KeyEq(sortIn[i], sortIn[j])
    /\ \E i, j \in 1..3 : ~KeyEq(sortIn[i], sortIn[j])

\* ---------------------------------------------------------------------
\* Properties of the handlers
\* ---------------------------------------------------------------------
AnalysisInFlight == Waiting("analyze_reactions") # {}

\* slot k has just issued the command cmd
Issued(k, cmd) == tasks'[k].pc = cmd /\ tasks[k].pc # cmd

\* handleGo has just completed an analysis: the last tab is a new one
AnalysisCompleted ==
    /\ isAnalyzing
    /\ ~isAnalyzing'
    /\ tabs' # <<>>
    /\ tabs'[Len(tabs')].id \notin TabIds(tabs)

\* C3: while an analyze_reactions request is outstanding, no add_moon and
\* no delete_moon request is issued to the backend.
NoSiteMutationDuringAnalysis ==
    [][AnalysisInFlight =>
          \A k \in Slots : ~Issued(k, "add_moon") /\ ~Issued(k, "delete_moon")]_vars

\* C4: at most one analyze_reactions request is outstanding, and the GO
\* button is disabled exactly while one is.
OneAnalysisInFlight ==
    /\ Cardinality(Waiting("analyze_reactions")) <= 1
    /\ GoButtonDisabled <=> AnalysisInFlight

SecondAnalysisInFlight ==
    /\ clock >= 1
    /\ AnalysisInFlight
    /\ isAnalyzing
    /\ activeTab = home

\* C5: when parse_moon_data fails, that handleAddMoon invokes no add_moon,
\* leaves the backend's sites, the displayed moons and the pasted text as
\* they are and puts the error in errorMessage; a handleAddMoon whose text
\* parses clears the error when it starts, hands the parsed sites to
\* add_moon and the backend gains exactly them.
MalformedSurveyBlocksOnlyThatAdd ==
    [][\A k \in Slots :
          /\ (/\ tasks[k].pc = "parse_moon_data"
              /\ tasks'[k] # tasks[k]
              /\ parse_moon_data(tasks[k].input) = <<>>) =>
                 /\ tasks'[k] = Idle
                 /\ \A j \in Slots : ~Issued(j, "add_moon")
                 /\ sites' = sites
                 /\ moons' = moons
                 /\ inputText' = inputText
                 /\ errorMessage' = MalformedSurvey
          /\ (/\ tasks[k].pc = "parse_moon_data"
              /\ tasks'[k] # tasks[k]
              /\ parse_moon_data(tasks[k].input) # <<>>) =>
                 /\ Issued(k, "add_moon")
                 /\ tasks'[k].parsed = parse_moon_data(tasks[k].input)
          /\ (tasks[k].pc = "add_moon" /\ tasks'[k] # tasks[k]) =>
                 /\ sites' = sites \o parse_moon_data(tasks[k].input)
                 /\ Len(sites') > Len(sites)
          /\ Issued(k, "parse_moon_data") => errorMessage' = null]_vars

\* a malformed paste has been refused while a site was loaded and shown
MalformedSurveyRefused ==
    /\ errorMessage = MalformedSurvey
    /\ parse_moon_data(inputText) = <<>>
    /\ trim(inputText) # <<>>
    /\ sites # <<>>
    /\ moons = sites
    /\ \A k \in Slots : tasks[k] = Idle

MarginDescending(rows) ==
    \A i \in 1..(Len(rows) - 1) : rows[i].margin >= rows[i + 1].margin

\* C6: the tab a completed analysis opens lists its results in descending
\* margin order.
NewTabShowsMarginDescending ==
    [][AnalysisCompleted => MarginDescending(DisplayedResults')]_vars

\* C7: when no add, delete or refresh is outstanding, the displayed moons
\* are the backend's sites and the displayed unique materials are the
\* backend's unique materials.
DisplayedDataCurrent ==
    (\A k \in Slots : tasks[k].kind \notin {"mount", "add", "delete"}) =>
        /\ moons = get_moons(sites)
        /\ uniqueMaterials = get_unique_materials(sites)

\* C8: a completed analysis appends its tab to the tab list as it is at
\* that moment and makes the new tab active.
CompletedAnalysisAppendsOneTab ==
    [][AnalysisCompleted =>
          /\ tabs' = Append(tabs, tabs'[Len(tabs')])
          /\ activeTab' = tabs'[Len(tabs')].id]_vars

\* C9: the tab list always holds the Home tab, as its first element.
HomeTabStaysFirst ==
    /\ tabs # <<>>
    /\ tabs[1].id = home

\* an analysis tab was opened and every analysis tab has been closed
AnalysisTabsClosed ==
    /\ clock >= 1
    /\ Len(tabs) = 1
    /\ ~AnalysisInFlight

\* ---------------------------------------------------------------------
\* Properties of the text instructions
\* ---------------------------------------------------------------------
\* the reaction nodes with children
ReactionNodes(t) ==
    {p \in DOMAIN t : /\ t[p].source \in {"react", "output"}
                      /\ Len(children(t, p)) > 0}

\* q lies below p
IsDescendant(q, p) == Len(q) > Len(p) /\ SubSeq(q, 1, Len(p)) = p

StepLines == {k \in 1..Len(instructions) : instructions[k].kind = "step"}

\* lines k and k + 1 are the numbered step i and print the reaction of p
PrintsReaction(k, i, p) ==
    /\ instructions[k].kind = "step"
    /\ instructions[k].n = i
    /\ instructions[k].inputs =
         [c \in 1..Len(children(tree, p)) |->
            <<tree[Append(p, c)].name, " x",
              toLocaleString(tree[Append(p, c)].quantity)>>]
    /\ k < Len(instructions)
    /\ instructions[k + 1].kind = "product"
    /\ instructions[k + 1].name = tree[p].name
    /\ instructions[k + 1].qty = toLocaleString(tree[p].quantity)

\* C10: the numbered REACT steps are the reaction nodes with children,
\* each exactly once and each after every reaction node below it; the
\* root's reaction, when the root is one, is the last step, and the last
\* line is the SELL line of the root.
ReactionsListedBottomUp ==
    treePc = "done" =>
        LET R == ReactionNodes(tree)
            n == Cardinality(R)
            last == instructions[Len(instructions)]
        IN  /\ Cardinality(StepLines) = n
            /\ \A i \in 1..n :
                  Cardinality({k \in StepLines : instructions[k].n = i}) = 1
            /\ \E f \in [1..n -> R] :
                  /\ \A i, j \in 1..n : i # j => f[i] # f[j]
                  /\ \A i \in 1..n : \E k \in StepLines :
                        PrintsReaction(k, i, f[i])
                  /\ \A i, j \in 1..n : IsDescendant(f[j], f[i]) => j < i
                  /\ <<>> \in R => f[n] = <<>>
            /\ last.kind = "SELL"
            /\ last.name = tree[<<>>].name
            /\ last.qty = toLocaleString(tree[<<>>].quantity)
            /\ last.price = formatIsk(tree[<<>>].total_price)

\* instructions of a final product whose two inputs are both reacted
TwoReactedInputsListed ==
    /\ treePc = "done"
    /\ tree[<<>>].source = "output"
    /\ {<<1>>, <<2>>} \subseteq ReactionNodes(tree)
    /\ Cardinality(StepLines) = 3

\* ---------------------------------------------------------------------
\* Properties of the flow graph
\* ---------------------------------------------------------------------
\* q is visited before p in pre-order: q is above p, or lies in a subtree
\* to the left of p
VisitedBefore(q, p) ==
    \/ IsDescendant(p, q)
    \/ \E k \in 1..Min(Len(q), Len(p)) :
          /\ \A i \in 1..(k - 1) : q[i] = p[i]
          /\ q[k] < p[k]

PreOrderIndex(p) == Cardinality({q \in DOMAIN tree : VisitedBefore(q, p)})

Parent(p) == SubSeq(p, 1, Len(p) - 1)

EdgesFrom(id) == {e \in 1..Len(flow.edges) : flow.edges[e].source = id}

\* C11: treeToFlow returns one flow node per tree node, with distinct ids
\* numbered in pre-order from node-0 for the root, and one edge per
\* non-root node, from that node to its parent: one edge fewer than
\* nodes, and none leaving the root.
FlowMirrorsTree ==
    treePc = "flow" =>
        /\ Len(flow.nodes) = Cardinality(DOMAIN tree)
        /\ \A i, j \in 1..Len(flow.nodes) :
              i # j => flow.nodes[i].id # flow.nodes[j].id
        /\ \A p \in DOMAIN tree :
              LET fn == flow.nodes[PreOrderIndex(p) + 1]
              IN  /\ fn.id = <<"node", PreOrderIndex(p)>>
                  /\ fn.data.label = tree[p].name
                  /\ fn.data.source = tree[p].source
                  /\ fn.data.quantity = tree[p].quantity
        /\ Len(flow.edges) = Len(flow.nodes) - 1
        /\ EdgesFrom(<<"node", 0>>) = {}
        /\ \A p \in DOMAIN tree \ {<<>>} :
              /\ Cardinality(EdgesFrom(<<"node", PreOrderIndex(p)>>)) = 1
              /\ \A e \in EdgesFrom(<<"node", PreOrderIndex(p)>>) :
                    flow.edges[e].target = <<"node", PreOrderIndex(Parent(p))>>

\* a converted tree whose second child of the root comes after a
\* grandchild in pre-order
DeepTreeConverted ==
    /\ treePc = "flow"
    /\ {<<1, 1>>, <<2>>} \subseteq DOMAIN tree
    /\ Len(flow.nodes) >= 4
    /\ Len(flow.edges) >= 3

\* ---------------------------------------------------------------------
\* Properties of the active tab
\* ---------------------------------------------------------------------
\* a tab has just been closed (no other handler shortens the tab list)
TabClosed == Len(tabs') < Len(tabs)

\* C12: activeTab is always the id of a tab in the tab list; closing the
\* active tab makes 'home' active and closing any other tab leaves
\* activeTab unchanged.
ActiveTabExists ==
    /\ [](activeTab \in TabIds(tabs))
    /\ [][TabClosed =>
            IF activeTab \in TabIds(tabs')
            THEN activeTab' = activeTab
            ELSE activeTab' = home]_vars

\* the first analysis tab was closed while the second stayed active
OtherTabClosed ==
    /\ clock = 2
    /\ Len(tabs) = 2
    /\ activeTab = <<"analysis", 2>>
    /\ activeTab = tabs[2].id
    /\ ~AnalysisInFlight
====
